---- MODULE Spec2Model ----
(***************************************************************************)
(* xmtp-rss-bot: the subscription and delivery-dedup registry              *)
(* (ConversationManager), the bounded FIFO set it keeps per subreddit      *)
(* (FifoSet), the periodic poll cycle and the inbound message loop.        *)
(*                                                                         *)
(* Four specifications:                                                    *)
(*   SpecFifo      the FifoSet class on its own: an instance deserialized  *)
(*                 from any bounded array, then driven through its public  *)
(*                 methods;                                                *)
(*   SpecManager   the ConversationManager on its own, from a first start  *)
(*                 in an empty data directory: its methods, failing        *)
(*                 writes, restarts;                                       *)
(*   SpecSnapshot  the same, started on any data file;                     *)
(*   Spec          the running bot: poll cycles, commands, transport,      *)
(*                 restart.                                                *)
(***************************************************************************)
EXTENDS Integers, Sequences, FiniteSets, TLC

(***************************************************************************)
(* Bounds of the model.                                                    *)
(***************************************************************************)
\* largest maxCapacity handed to the FifoSet constructor in SpecFifo
MaxCapacity == 2
\* longest array handed to FifoSet.deserialize in SpecFifo
MaxInput == 3
\* most add() calls made on one FifoSet instance in SpecFifo
MaxAdds == 4
\* longest sequence of add() calls compared on a set and on its copy
MaxFollowUp == 2
\* most writes of the data file that fail in a row (SpecManager, SpecSnapshot)
MaxFailedWrites == 1
\* most entries under "subscriptions" in a data file found at startup
MaxEntries == 2

\* capacity of a window created at delivery time (50 in the source, scaled)
FreshCapacity == 1
\* capacity of a window restored from the data file (1000 in the source, scaled)
RestoredCapacity == 2
\* POST_LIMIT: most posts one fetch returns (5 by default, scaled)
postLimit == 1
\* the checkAndSendRedditPosts invocations that can be in flight at once
Cycles == {1, 2}

\* the values a FifoSet holds (post ids)
Items == {"p1", "p2", "p3"}

\* the post ids the feed serves to the bot
PostIds == {"p1"}
\* the post ids offered to the manager under test
OfferedIds == {"p1", "p2"}
\* wallet addresses as the transport reports them, and subreddit names as
\* users type them
RawAddresses == {"0xA", "0xb"}
RawSubreddits == {"Games"}
UnknownAddress == "unknown-address"
\* the conversations the client holds, and the peer of each
Conversations == {"c1", "c2"}
peerAddress(conversation) == IF conversation = "c1" THEN "0xA" ELSE "0xb"

\* String.prototype.toLowerCase on the strings of the model
toLowerCase(str) ==
    CASE str = "0xA" -> "0xa"
      [] str = "Games" -> "games"
      [] str = "News" -> "news"
      [] OTHER -> str

(***************************************************************************)
(* Sequence helpers.                                                       *)
(***************************************************************************)
Range(s) == {s[k] : k \in 1..Len(s)}

IsDistinct(s) == \A j, k \in 1..Len(s) : j # k => s[j] # s[k]

Min(a, b) == IF a < b THEN a ELSE b

\* the last n elements of s, in order (all of s when n >= Len(s))
LastN(s, n) == SubSeq(s, Len(s) - Min(n, Len(s)) + 1, Len(s))

\* s without its element x (Set.prototype.delete keeps the others' order)
Without(s, x) == SelectSeq(s, LAMBDA y : y # x)

SeqsUpTo(S, n) == UNION {[1..k -> S] : k \in 0..n}

\* the orders in which the members of a set can be iterated
Orders(S) == {q \in [1..Cardinality(S) -> S] : Range(q) = S}

\* Map.prototype.set and Map.prototype.delete on a map held as a function
MapSet(m, k, v) == [x \in DOMAIN m \cup {k} |-> IF x = k THEN v ELSE m[x]]
MapDelete(m, k) == [x \in DOMAIN m \ {k} |-> m[x]]
EmptyMap == [x \in {} |-> {}]

(***************************************************************************)
(* FifoSet<T>.  A JavaScript Set iterates in insertion order, so `items`   *)
(* is a sequence without repetition, oldest first.                         *)
(***************************************************************************)
\* new FifoSet(maxCapacity)
FifoSet(maxCapacity) == [items |-> <<>>, maxCapacity |-> maxCapacity]

has(s, item) == item \in Range(s.items)

\* add() with the eviction taken from the wrong end: drops the newest member
addEvictsNewest(s, item) ==
    IF has(s, item)
    THEN s
    ELSE LET room == IF Len(s.items) >= s.maxCapacity /\ Len(s.items) > 0
                     THEN SubSeq(s.items, 1, Len(s.items) - 1)
                     ELSE s.items
         IN  [s EXCEPT !.items = Append(room, item)]

\* add() that re-inserts an existing member as the newest one
addRefreshes(s, item) ==
    LET rest == Without(s.items, item)
        room == IF Len(rest) >= s.maxCapacity /\ Len(rest) > 0
                THEN Tail(rest) ELSE rest
    IN  [s EXCEPT !.items = Append(room, item)]

\* the set after add(item)
add(s, item) ==
    IF has(s, item)
    THEN s
    ELSE LET room == IF Len(s.items) >= s.maxCapacity /\ Len(s.items) > 0
                     THEN Tail(s.items)       \* delete values().next().value
                     ELSE s.items             \* below capacity, or nothing to delete
         IN  [s EXCEPT !.items = Append(room, item)]

\* the value add(item) returns
addReturns(s, item) == ~has(s, item)

delete(s, item) == [s EXCEPT !.items = Without(s.items, item)]

deleteReturns(s, item) == has(s, item)

clear(s) == [s EXCEPT !.items = <<>>]

size(s) == Len(s.items)

capacity(s) == s.maxCapacity

\* a serialize() that lists the newest item first
serializeNewestFirst(s) == [k \in 1..Len(s.items) |-> s.items[Len(s.items) + 1 - k]]

\* Array.from(this.items): the items, oldest first
serialize(s) == s.items

RECURSIVE replayUntilFull(_, _)
\* a deserialize loop that stops adding once the set is full
replayUntilFull(s, items) ==
    IF items = <<>> \/ Len(s.items) >= s.maxCapacity
    THEN s
    ELSE replayUntilFull(add(s, Head(items)), Tail(items))

RECURSIVE replay(_, _)
\* the for-loop of deserialize: add every item in order
replay(s, items) ==
    IF items = <<>> THEN s ELSE replay(add(s, Head(items)), Tail(items))

deserialize(items, maxCapacity) == replay(FifoSet(maxCapacity), items)

(***************************************************************************)
(* State.                                                                  *)
(***************************************************************************)
VARIABLES
    \* ---- one FifoSet instance under test (SpecFifo) ----
    fifoSet,      \* the instance: [items, maxCapacity]
    lastCall,     \* the most recent method call: its name, argument, the
                  \* instance before it and the value it returned
    calls,        \* the calls made on the instance since it was constructed:
                  \* the items passed to add() in call order, whether has()
                  \* was called, whether only add() and has() were called
    \* ---- the running bot (Spec) ----
    userSubscriptions,     \* Map address -> Set of subreddits
    seenPostsBySubreddit,  \* Map subreddit -> FifoSet of post ids
    dataFile,              \* the document in user_data.json
    cycle,                 \* the checkAndSendRedditPosts invocations, each
                           \* standing at one of its awaits
    main,                  \* main(): the startup check, then the message loop
    sent,                  \* the posts the transport accepted: <<to, subreddit, id>>
    \* ---- one ConversationManager under test (SpecManager, SpecSnapshot) ----
    lastOp        \* the most recent call on the manager: its name, arguments,
                  \* what it returned, whether it threw, what became of its
                  \* write of the data file, and the registry before a
                  \* subscribe

fifoVars == <<fifoSet, lastCall, calls>>
botVars == <<userSubscriptions, seenPostsBySubreddit, dataFile, cycle, main, sent>>
vars == <<fifoSet, lastCall, calls,
          userSubscriptions, seenPostsBySubreddit, dataFile, cycle, main, sent,
          lastOp>>

NoItem == "-"

Call(op, item, input, before, returned) ==
    [op |-> op, item |-> item, input |-> input, before |-> before,
     returned |-> returned]

NoCalls == [adds |-> <<>>, hasCalled |-> FALSE, onlyAddHas |-> TRUE]

\* an array and a capacity are chosen; the instance under test will be the
\* one the static deserialize() makes of them
InitFifo ==
    \E input \in SeqsUpTo(Items, MaxInput), maxCapacity \in 0..MaxCapacity :
        /\ fifoSet = FifoSet(maxCapacity)
        /\ lastCall = Call("none", NoItem, input, fifoSet, FALSE)
        /\ calls = NoCalls

\* FifoSet.deserialize(input, maxCapacity): the instance it returns has had
\* add() called once per element (it is `new FifoSet(maxCapacity)` when the
\* array is empty)
CallDeserialize ==
    /\ lastCall.op = "none"
    /\ fifoSet' = deserialize(lastCall.input, capacity(fifoSet))
    /\ lastCall' = [lastCall EXCEPT !.op = "deserialize"]
    /\ calls' = [NoCalls EXCEPT !.adds = lastCall.input]
    /\ UNCHANGED <<botVars, lastOp>>

CallAdd(item) ==
    /\ lastCall.op # "none"
    /\ Len(calls.adds) < MaxAdds
    /\ fifoSet' = add(fifoSet, item)
    /\ lastCall' = Call("add", item, <<>>, fifoSet, addReturns(fifoSet, item))
    /\ calls' = [calls EXCEPT !.adds = Append(@, item)]
    /\ UNCHANGED <<botVars, lastOp>>

CallHas(item) ==
    /\ lastCall.op # "none"
    /\ fifoSet' = fifoSet
    /\ lastCall' = Call("has", item, <<>>, fifoSet, has(fifoSet, item))
    /\ calls' = [calls EXCEPT !.hasCalled = TRUE]
    /\ UNCHANGED <<botVars, lastOp>>

CallDelete(item) ==
    /\ lastCall.op # "none"
    /\ fifoSet' = delete(fifoSet, item)
    /\ lastCall' = Call("delete", item, <<>>, fifoSet, deleteReturns(fifoSet, item))
    /\ calls' = [calls EXCEPT !.onlyAddHas = FALSE]
    /\ UNCHANGED <<botVars, lastOp>>

CallClear ==
    /\ lastCall.op # "none"
    /\ fifoSet' = clear(fifoSet)
    /\ lastCall' = Call("clear", NoItem, <<>>, fifoSet, FALSE)
    /\ calls' = [calls EXCEPT !.onlyAddHas = FALSE]
    /\ UNCHANGED <<botVars, lastOp>>

\* FifoSet.deserialize(s.serialize(), s.capacity()): the instance under test
\* is replaced by the copy, which has had add() called once per item saved
CallRoundTrip ==
    /\ lastCall.op # "none"
    /\ fifoSet' = deserialize(serialize(fifoSet), capacity(fifoSet))
    /\ lastCall' = Call("roundtrip", NoItem, serialize(fifoSet), fifoSet, FALSE)
    /\ calls' = [NoCalls EXCEPT !.adds = serialize(fifoSet)]
    /\ UNCHANGED <<botVars, lastOp>>


(***************************************************************************)
(* ConversationManager: the registry (address -> subreddits), the dedup    *)
(* index (subreddit -> FifoSet) and the data file.                         *)
(***************************************************************************)
getUserSubscriptions(subs, address) ==
    IF toLowerCase(address) \in DOMAIN subs THEN subs[toLowerCase(address)] ELSE {}

getAllSubscribedSubreddits(subs) == UNION {subs[a] : a \in DOMAIN subs}

getSubscribersForSubreddit(subs, subreddit) ==
    {a \in DOMAIN subs : toLowerCase(subreddit) \in subs[a]}

subscribeToSubreddit(subs, address, subreddit) ==
    MapSet(subs, toLowerCase(address),
           getUserSubscriptions(subs, address) \cup {toLowerCase(subreddit)})

\* a subscribe that compares the subreddit name as it was typed
subscribeReturnsCaseSensitive(subs, address, subreddit) ==
    subreddit \notin getUserSubscriptions(subs, address)

subscribeReturns(subs, address, subreddit) ==
    toLowerCase(subreddit) \notin getUserSubscriptions(subs, address)

unsubscribeReturns(subs, address, subreddit) ==
    /\ toLowerCase(address) \in DOMAIN subs
    /\ toLowerCase(subreddit) \in subs[toLowerCase(address)]

\* an unsubscribe that drops the whole entry of the address
unsubscribeDropsAddress(subs, address, subreddit) ==
    IF ~unsubscribeReturns(subs, address, subreddit)
    THEN subs
    ELSE MapDelete(subs, toLowerCase(address))

unsubscribeFromSubreddit(subs, address, subreddit) ==
    IF ~unsubscribeReturns(subs, address, subreddit)
    THEN subs
    ELSE LET rest == subs[toLowerCase(address)] \ {toLowerCase(subreddit)}
         IN  IF rest = {}
             THEN MapDelete(subs, toLowerCase(address))
             ELSE MapSet(subs, toLowerCase(address), rest)

unsubscribeAllReturns(subs, address) ==
    /\ toLowerCase(address) \in DOMAIN subs
    /\ subs[toLowerCase(address)] # {}

\* an unsubscribe-all that empties the set and keeps the entry
unsubscribeAllKeepsEntry(subs, address) ==
    IF unsubscribeAllReturns(subs, address)
    THEN MapSet(subs, toLowerCase(address), {})
    ELSE subs

unsubscribeFromAllSubreddits(subs, address) ==
    IF unsubscribeAllReturns(subs, address)
    THEN MapDelete(subs, toLowerCase(address))
    ELSE subs

\* user_data.json.  kind says what the constructor finds at dataFilePath: no
\* file ("missing"), text JSON.parse throws on ("unparsable"), or a parsed
\* object ("document") whose subscriptions and seenPosts are listed in
\* Object.entries order.  An entry's value is an array (isArray, the array in
\* value) or something `new Set(...)` and `for ... of` throw on (a number).
Entry(key, value) == [key |-> key, isArray |-> TRUE, value |-> value]
NotAnArray(key) == [key |-> key, isArray |-> FALSE, value |-> <<>>]
Document(subscriptions, seenPosts) ==
    [kind |-> "document", subscriptions |-> subscriptions, seenPosts |-> seenPosts]
MissingFile == [kind |-> "missing", subscriptions |-> <<>>, seenPosts |-> <<>>]
UnparsableFile == [kind |-> "unparsable", subscriptions |-> <<>>, seenPosts |-> <<>>]

\* the members of a Map or a Set as forEach and Array.from list them (the
\* keys of a Map are distinct, so the order has no effect on what is loaded
\* back; one order stands for all)
RECURSIVE ListOf(_)
ListOf(S) ==
    IF S = {} THEN <<>>
    ELSE LET x == CHOOSE y \in S : TRUE IN <<x>> \o ListOf(S \ {x})

\* the UserData document saveUserData writes
UserData(subs, seen) ==
    LET addresses == ListOf(DOMAIN subs)
        subreddits == ListOf(DOMAIN seen)
    IN  Document([k \in 1..Len(addresses) |->
                     Entry(addresses[k], ListOf(subs[addresses[k]]))],
                 [k \in 1..Len(subreddits) |->
                     Entry(subreddits[k], serialize(seen[subreddits[k]]))])

\* a save that writes the subscriptions and leaves the seen posts of the file
saveUserDataSubscriptionsOnly(file, subs, seen, writeOk) ==
    IF writeOk
    THEN Document(UserData(subs, seen).subscriptions, file.seenPosts)
    ELSE file

\* the file after saveUserData: the new document, or the old file when
\* writeFileSync throws (the error is caught and logged)
saveUserData(file, subs, seen, writeOk) ==
    IF writeOk THEN UserData(subs, seen) ELSE file

\* the file found after the process died inside fs.writeFileSync(path, text):
\* the call opens the path with flag "w", which truncates it, and then writes
\* the text; the old document is intact only before the open, the new one is
\* complete only after the last byte, and in between the file is empty or a
\* prefix of the new text, which JSON.parse rejects
CrashPoints == {"before open", "after open", "after write"}
interruptedWrite(file, subs, seen, point) ==
    CASE point = "before open" -> file
      [] point = "after open" -> UnparsableFile
      [] point = "after write" -> UserData(subs, seen)

RECURSIVE loadSubscriptions(_, _)
\* lines 52-55: set(address.toLowerCase(), new Set(subreddits)) entry by
\* entry; `threw` when new Set() throws, with the entries before it loaded
loadSubscriptions(entries, subs) ==
    IF entries = <<>> THEN [map |-> subs, threw |-> FALSE]
    ELSE IF ~Head(entries).isArray THEN [map |-> subs, threw |-> TRUE]
    ELSE loadSubscriptions(Tail(entries),
             MapSet(subs, toLowerCase(Head(entries).key), Range(Head(entries).value)))

\* a loader that keeps the items of a window newest first
loadSeenPostsReversed(entries, seen) ==
    [map |-> [t \in {toLowerCase(entries[k].key) : k \in 1..Len(entries)} |->
                 LET e == entries[CHOOSE k \in 1..Len(entries) :
                                      toLowerCase(entries[k].key) = t]
                 IN  deserialize([k \in 1..Len(e.value) |->
                                     e.value[Len(e.value) + 1 - k]], RestoredCapacity)],
     threw |-> FALSE]

RECURSIVE loadSeenPosts(_, _)
\* lines 60-63: set(subreddit.toLowerCase(), FifoSet.deserialize(postIds, 1000))
loadSeenPosts(entries, seen) ==
    IF entries = <<>> THEN [map |-> seen, threw |-> FALSE]
    ELSE IF ~Head(entries).isArray THEN [map |-> seen, threw |-> TRUE]
    ELSE loadSeenPosts(Tail(entries),
             MapSet(seen, toLowerCase(Head(entries).key),
                    deserialize(Head(entries).value, RestoredCapacity)))

\* loadUserData on a fresh instance: the registry, the dedup index and the
\* file it leaves.  Whatever throws is caught at line 67 with what was loaded
\* before it left in place.
loadUserData(file, writeOk) ==
    IF file.kind = "missing"
    THEN [subs |-> EmptyMap, seen |-> EmptyMap,
          file |-> IF writeOk THEN UserData(EmptyMap, EmptyMap) ELSE file]
    ELSE IF file.kind = "unparsable"
    THEN [subs |-> EmptyMap, seen |-> EmptyMap, file |-> file]
    ELSE LET subs == loadSubscriptions(file.subscriptions, EmptyMap)
             seen == IF subs.threw THEN [map |-> EmptyMap, threw |-> TRUE]
                     ELSE loadSeenPosts(file.seenPosts, EmptyMap)
         IN  [subs |-> subs.map, seen |-> seen.map, file |-> file]

\* lines 134-146 of sendRedditPostToSubscribers: the window of the subreddit,
\* created on first use
windowOf(seen, subreddit) ==
    IF toLowerCase(subreddit) \in DOMAIN seen
    THEN seen[toLowerCase(subreddit)]
    ELSE FifoSet(FreshCapacity)

\* a dedup step that forgets to record the post
markSeenForgets(seen, subreddit, id) ==
    MapSet(seen, toLowerCase(subreddit), windowOf(seen, subreddit))

\* the dedup index after the has-check and the add of the post
markSeen(seen, subreddit, id) ==
    MapSet(seen, toLowerCase(subreddit), add(windowOf(seen, subreddit), id))

(***************************************************************************)
(* checkAndSendRedditPosts.  An invocation runs without interruption       *)
(* between two awaits, so each action below goes from one await to the     *)
(* next.  pc names the await the invocation stands at:                     *)
(*   idle      not running                                                 *)
(*   fetch     fetchRedditTopPosts(subreddit, postLimit)                   *)
(*   list      getAllConversations() in sendToSpecificAddresses            *)
(*   resolve   getAddressFromConversation(conversation)                    *)
(*   send      conversation.send(message)                                  *)
(*   returned  sendRedditPostToSubscribers(post, subreddit), settled       *)
(* state is the state of the delivery attempt for Head(posts).             *)
(***************************************************************************)
None == "-"

IdleCycle ==
    [pc |-> "idle", todo |-> <<>>, subreddit |-> None, posts |-> <<>>,
     subscribers |-> {}, conversations |-> <<>>, conversation |-> None,
     state |-> None, failed |-> FALSE, attempted |-> {}]

IdleMain == [pc |-> "idle", from |-> None, subreddit |-> None, posts |-> <<>>]

\* what fetchRedditTopPosts can return: at most postLimit items, [] on failure
Feeds == SeqsUpTo(PostIds, postLimit)

\* what conversations.list() can return
Listings == UNION {Orders(S) : S \in SUBSET Conversations}

\* the first await of a cycle over the subreddits `order`
FirstFetch(order) ==
    [IdleCycle EXCEPT !.pc = "fetch", !.subreddit = Head(order), !.todo = Tail(order)]

\* `for (const subreddit of subscribedSubreddits)` moves on
nextSubreddit(p) == IF p.todo = <<>> THEN IdleCycle ELSE FirstFetch(p.todo)

\* sendRedditPostToSubscribers settles
settled(p, state) ==
    [p EXCEPT !.pc = "returned", !.state = state, !.subscribers = {},
              !.conversations = <<>>, !.conversation = None,
              !.attempted = {}]

\* `for (const conversation of conversations)` moves on; after the last
\* conversation sendToSpecificAddresses returns and the dispatch returns true
nextConversation(p) ==
    IF p.conversations = <<>>
    THEN settled(p, "DELIVERED")
    ELSE [p EXCEPT !.pc = "resolve", !.conversation = Head(p.conversations),
                   !.conversations = Tail(p.conversations)]

\* main() goes on to the message loop once the startup check has returned
mainAfter(p) ==
    IF main.pc = "startup" /\ p.pc = "idle" THEN IdleMain ELSE main

\* a dispatch that looks for subscribers before it records the post
sendRedditPostChecksSubscribersFirst(i, p, writeOk) ==
    LET id == Head(p.posts)
        q == [p EXCEPT !.failed = FALSE]
        subscribers == getSubscribersForSubreddit(userSubscriptions, p.subreddit)
    IN  IF has(windowOf(seenPostsBySubreddit, p.subreddit), id)
        THEN /\ UNCHANGED <<seenPostsBySubreddit, dataFile>>
             /\ cycle' = [cycle EXCEPT ![i] = settled(q, "DUPLICATE")]
        ELSE IF subscribers = {}
        THEN /\ UNCHANGED <<seenPostsBySubreddit, dataFile>>
             /\ cycle' = [cycle EXCEPT ![i] = settled(q, "NO_SUBSCRIBERS")]
        ELSE /\ seenPostsBySubreddit' = markSeen(seenPostsBySubreddit, p.subreddit, id)
             /\ dataFile' = saveUserData(dataFile, userSubscriptions,
                                         seenPostsBySubreddit', writeOk)
             /\ cycle' = [cycle EXCEPT ![i] =
                             [q EXCEPT !.pc = "list", !.state = "DELIVERING",
                                       !.subscribers = subscribers]]

\* a dispatch that writes the snapshot before it records the post
sendRedditPostSavesFirst(i, p, writeOk) ==
    LET id == Head(p.posts)
        q == [p EXCEPT !.failed = FALSE]
        subscribers == getSubscribersForSubreddit(userSubscriptions, p.subreddit)
    IN  IF has(windowOf(seenPostsBySubreddit, p.subreddit), id)
        THEN /\ UNCHANGED <<seenPostsBySubreddit, dataFile>>
             /\ cycle' = [cycle EXCEPT ![i] = settled(q, "DUPLICATE")]
        ELSE /\ dataFile' = saveUserData(dataFile, userSubscriptions,
                                         seenPostsBySubreddit, writeOk)
             /\ seenPostsBySubreddit' = markSeen(seenPostsBySubreddit, p.subreddit, id)
             /\ cycle' = [cycle EXCEPT ![i] =
                     IF subscribers = {}
                     THEN settled(q, "NO_SUBSCRIBERS")
                     ELSE [q EXCEPT !.pc = "list", !.state = "DELIVERING",
                                    !.subscribers = subscribers]]

\* sendRedditPostToSubscribers(Head(p.posts), p.subreddit) up to its first
\* await or its return
sendRedditPostToSubscribers(i, p, writeOk) ==
    LET id == Head(p.posts)
        q == [p EXCEPT !.failed = FALSE]
        subscribers == getSubscribersForSubreddit(userSubscriptions, p.subreddit)
    IN  IF has(windowOf(seenPostsBySubreddit, p.subreddit), id)
        THEN /\ UNCHANGED <<seenPostsBySubreddit, dataFile>>
             /\ cycle' = [cycle EXCEPT ![i] = settled(q, "DUPLICATE")]
        ELSE /\ seenPostsBySubreddit' = markSeen(seenPostsBySubreddit, p.subreddit, id)
             /\ dataFile' = saveUserData(dataFile, userSubscriptions,
                                         seenPostsBySubreddit', writeOk)
             /\ cycle' = [cycle EXCEPT ![i] =
                     IF subscribers = {}
                     THEN settled(q, "NO_SUBSCRIBERS")
                     ELSE [q EXCEPT !.pc = "list", !.state = "DELIVERING",
                                    !.subscribers = subscribers]]

\* the loops of checkAndSendRedditPosts go on with the posts left in p
continue(i, p, writeOk) ==
    IF p.posts # <<>>
    THEN sendRedditPostToSubscribers(i, p, writeOk)
    ELSE /\ cycle' = [cycle EXCEPT ![i] = nextSubreddit(p)]
         /\ UNCHANGED <<seenPostsBySubreddit, dataFile>>

\* setInterval fires: the invocation runs to its first fetch (it returns at
\* once when nobody is subscribed to anything)
StartCycle(i, order) ==
    /\ cycle[i].pc = "idle"
    /\ main.pc # "startup"
    /\ order \in Orders(getAllSubscribedSubreddits(userSubscriptions))
    /\ order # <<>>
    /\ cycle' = [cycle EXCEPT ![i] = FirstFetch(order)]
    /\ UNCHANGED <<userSubscriptions, seenPostsBySubreddit, dataFile, main, sent, fifoVars, lastOp>>

FetchResolves(i, posts, writeOk) ==
    /\ cycle[i].pc = "fetch"
    /\ continue(i, [cycle[i] EXCEPT !.posts = posts], writeOk)
    /\ main' = mainAfter(cycle'[i])
    /\ UNCHANGED <<userSubscriptions, sent, fifoVars, lastOp>>

ListResolves(i, conversations) ==
    /\ cycle[i].pc = "list"
    /\ cycle' = [cycle EXCEPT ![i] =
                    nextConversation([cycle[i] EXCEPT !.conversations = conversations])]
    /\ UNCHANGED <<userSubscriptions, seenPostsBySubreddit, dataFile, main, sent, fifoVars, lastOp>>

\* conversations.list() rejects: nothing catches it before the per-subreddit
\* try/catch of checkAndSendRedditPosts
ListRejects(i) ==
    /\ cycle[i].pc = "list"
    /\ cycle' = [cycle EXCEPT ![i] = settled(cycle[i], "THROWN")]
    /\ UNCHANGED <<userSubscriptions, seenPostsBySubreddit, dataFile, main, sent, fifoVars, lastOp>>

\* getAddressFromConversation returns the peer's address, or the sentinel
ResolveReturns(i, address) ==
    /\ cycle[i].pc = "resolve"
    /\ address \in {peerAddress(cycle[i].conversation), UnknownAddress}
    /\ cycle' = [cycle EXCEPT ![i] =
                    IF toLowerCase(address) \in cycle[i].subscribers
                    THEN [cycle[i] EXCEPT !.pc = "send",
                              !.attempted = @ \cup {toLowerCase(address)}]
                    ELSE nextConversation(cycle[i])]
    /\ UNCHANGED <<userSubscriptions, seenPostsBySubreddit, dataFile, main, sent, fifoVars, lastOp>>

\* the message of a dispatch that conversation.send is delivering
Message(p) ==
    <<toLowerCase(peerAddress(p.conversation)), toLowerCase(p.subreddit), Head(p.posts)>>

SendResolves(i) ==
    /\ cycle[i].pc = "send"
    /\ sent' = sent \cup {Message(cycle[i])}
    /\ cycle' = [cycle EXCEPT ![i] =
                    nextConversation(cycle[i])]
    /\ UNCHANGED <<userSubscriptions, seenPostsBySubreddit, dataFile, main, fifoVars, lastOp>>

\* a send that gives up on the remaining conversations
SendRejectsAborts(i) ==
    /\ cycle[i].pc = "send"
    /\ cycle' = [cycle EXCEPT ![i] =
                    settled([cycle[i] EXCEPT !.failed = TRUE], "THROWN")]
    /\ UNCHANGED <<userSubscriptions, seenPostsBySubreddit, dataFile, main, sent, fifoVars, lastOp>>

\* conversation.send rejects: caught and logged inside the loop
SendRejects(i) ==
    /\ cycle[i].pc = "send"
    /\ cycle' = [cycle EXCEPT ![i] =
                    nextConversation([cycle[i] EXCEPT !.failed = TRUE])]
    /\ UNCHANGED <<userSubscriptions, seenPostsBySubreddit, dataFile, main, sent, fifoVars, lastOp>>

\* the await on sendRedditPostToSubscribers resumes: next post, or the catch
\* of the subreddit's try block when it rejected
Returned(i, writeOk) ==
    /\ cycle[i].pc = "returned"
    /\ continue(i, [cycle[i] EXCEPT
                      !.posts = IF cycle[i].state = "THROWN" THEN <<>> ELSE Tail(@),
                      !.state = None, !.failed = FALSE], writeOk)
    /\ main' = mainAfter(cycle'[i])
    /\ UNCHANGED <<userSubscriptions, sent, fifoVars, lastOp>>

(***************************************************************************)
(* The ConversationManager on its own: the constructor and the methods     *)
(* that change the registry, the dedup index or the data file, each called *)
(* directly.  Offer is sendRedditPostToSubscribers up to its first await   *)
(* (lines 132-150): the fan-out after it, modelled in the cycle above,     *)
(* touches none of the three.                                              *)
(***************************************************************************)
\* the addresses and subreddit names the methods are called with
Addresses == {"0xA", "0xa", "0xb"}
Subreddits == {"Games", "news"}
\* the subreddit names posts are offered for
OfferedSubreddits == {"Games"}

Op(op, address, subreddit, id, returned, write) ==
    [op |-> op, address |-> address, subreddit |-> subreddit, id |-> id,
     returned |-> returned,
     threw |-> FALSE,     \* saveUserData and loadUserData catch what they throw
     write |-> write,
     failed |-> IF write = "failed" THEN lastOp.failed + 1
                ELSE IF write = "ok" THEN 0 ELSE lastOp.failed,
     stale |-> dataFile # UserData(userSubscriptions, seenPostsBySubreddit),
     before |-> IF op = "subscribe" THEN userSubscriptions ELSE EmptyMap]

NoOp ==
    [op |-> "none", address |-> None, subreddit |-> None, id |-> None,
     returned |-> FALSE, threw |-> FALSE, write |-> "none", failed |-> 0,
     stale |-> FALSE,
     before |-> EmptyMap]

\* writeFileSync can fail as long as fewer than MaxFailedWrites writes have
\* failed since the last one that succeeded
CanFail(writeOk) == writeOk \/ lastOp.failed < MaxFailedWrites

\* what became of the writeFileSync of a call
Write(attempted, writeOk) ==
    IF ~attempted THEN "none" ELSE IF writeOk THEN "ok" ELSE "failed"

\* new ConversationManager(client, dataDir), at the first start and at every
\* restart of the process
Construct(writeOk) ==
    /\ dataFile.kind = "missing" \/ writeOk    \* no write, no outcome of a write
    /\ CanFail(writeOk)
    /\ userSubscriptions' = loadUserData(dataFile, writeOk).subs
    /\ seenPostsBySubreddit' = loadUserData(dataFile, writeOk).seen
    /\ dataFile' = loadUserData(dataFile, writeOk).file
    /\ lastOp' = Op("construct", None, None, None, FALSE,
                    Write(dataFile.kind = "missing", writeOk))
    /\ UNCHANGED <<cycle, main, sent, fifoVars>>

CallSubscribe(address, subreddit, writeOk) ==
    LET returned == subscribeReturns(userSubscriptions, address, subreddit)
    IN  /\ lastOp.op # "none"
        /\ returned \/ writeOk      \* no write, no outcome of a write
        /\ CanFail(writeOk)
        /\ userSubscriptions' =
               subscribeToSubreddit(userSubscriptions, address, subreddit)
        /\ dataFile' = IF returned
                       THEN saveUserData(dataFile, userSubscriptions',
                                         seenPostsBySubreddit, writeOk)
                       ELSE dataFile
        /\ lastOp' = Op("subscribe", address, subreddit, None, returned,
                        Write(returned, writeOk))
        /\ UNCHANGED <<seenPostsBySubreddit, cycle, main, sent, fifoVars>>

CallUnsubscribe(address, subreddit, writeOk) ==
    LET returned == unsubscribeReturns(userSubscriptions, address, subreddit)
    IN  /\ lastOp.op # "none"
        /\ returned \/ writeOk      \* no write, no outcome of a write
        /\ CanFail(writeOk)
        /\ userSubscriptions' =
               unsubscribeFromSubreddit(userSubscriptions, address, subreddit)
        /\ dataFile' = IF returned
                       THEN saveUserData(dataFile, userSubscriptions',
                                         seenPostsBySubreddit, writeOk)
                       ELSE dataFile
        /\ lastOp' = Op("unsubscribe", address, subreddit, None, returned,
                        Write(returned, writeOk))
        /\ UNCHANGED <<seenPostsBySubreddit, cycle, main, sent, fifoVars>>

CallUnsubscribeAll(address, writeOk) ==
    LET returned == unsubscribeAllReturns(userSubscriptions, address)
    IN  /\ lastOp.op # "none"
        /\ returned \/ writeOk      \* no write, no outcome of a write
        /\ CanFail(writeOk)
        /\ userSubscriptions' =
               unsubscribeFromAllSubreddits(userSubscriptions, address)
        /\ dataFile' = IF returned
                       THEN saveUserData(dataFile, userSubscriptions',
                                         seenPostsBySubreddit, writeOk)
                       ELSE dataFile
        /\ lastOp' = Op("unsubscribeAll", address, None, None, returned,
                        Write(returned, writeOk))
        /\ UNCHANGED <<seenPostsBySubreddit, cycle, main, sent, fifoVars>>

\* sendRedditPostToSubscribers(post, subreddit) up to the subscriber lookup;
\* `returned` is what the call resolves to when no send or listing rejects
CallOffer(subreddit, id, writeOk) ==
    LET isNew == ~has(windowOf(seenPostsBySubreddit, subreddit), id)
        subscribers == getSubscribersForSubreddit(userSubscriptions, subreddit)
    IN  /\ lastOp.op # "none"
        /\ isNew \/ writeOk         \* no write, no outcome of a write
        /\ CanFail(writeOk)
        /\ seenPostsBySubreddit' =
               IF isNew THEN markSeen(seenPostsBySubreddit, subreddit, id)
               ELSE seenPostsBySubreddit
        /\ dataFile' = IF isNew
                       THEN saveUserData(dataFile, userSubscriptions,
                                         seenPostsBySubreddit', writeOk)
                       ELSE dataFile
        /\ lastOp' = Op("offer", None, subreddit, id, isNew /\ subscribers # {},
                        Write(isNew, writeOk))
        /\ UNCHANGED <<userSubscriptions, cycle, main, sent, fifoVars>>

\* the manager of a process that died: no call is possible before the next
\* new ConversationManager
Interrupted == [NoOp EXCEPT !.write = "interrupted"]

\* subscribeToSubreddit when the process dies inside the writeFileSync of
\* its saveUserData
SubscribeInterrupted(address, subreddit, point) ==
    /\ lastOp.op # "none"
    /\ subscribeReturns(userSubscriptions, address, subreddit)
    /\ dataFile' = interruptedWrite(dataFile,
                    subscribeToSubreddit(userSubscriptions, address, subreddit),
                    seenPostsBySubreddit, point)
    /\ userSubscriptions' = EmptyMap
    /\ seenPostsBySubreddit' = EmptyMap
    /\ lastOp' = Interrupted
    /\ UNCHANGED <<cycle, main, sent, fifoVars>>

\* sendRedditPostToSubscribers when the process dies inside the
\* writeFileSync of its saveUserData
OfferInterrupted(subreddit, id, point) ==
    /\ lastOp.op # "none"
    /\ ~has(windowOf(seenPostsBySubreddit, subreddit), id)
    /\ dataFile' = interruptedWrite(dataFile, userSubscriptions,
                    markSeen(seenPostsBySubreddit, subreddit, id), point)
    /\ userSubscriptions' = EmptyMap
    /\ seenPostsBySubreddit' = EmptyMap
    /\ lastOp' = Interrupted
    /\ UNCHANGED <<cycle, main, sent, fifoVars>>

(***************************************************************************)
(* main(): the message loop.  A reply or a fetch that main awaits changes  *)
(* nothing the registry or the cycles can see, so a command runs up to the *)
(* first send of a post; a rejected send is not caught anywhere and ends   *)
(* the loop (setInterval keeps the process alive).                         *)
(***************************************************************************)
DeadMain == [IdleMain EXCEPT !.pc = "dead"]

replied(replyOk) == IF replyOk THEN IdleMain ELSE DeadMain

\* "stop"
CmdStop(from, replyOk, writeOk) ==
    /\ main.pc = "idle"
    /\ userSubscriptions' = unsubscribeFromAllSubreddits(userSubscriptions, from)
    /\ dataFile' = IF unsubscribeAllReturns(userSubscriptions, from)
                   THEN saveUserData(dataFile, userSubscriptions',
                                     seenPostsBySubreddit, writeOk)
                   ELSE dataFile
    /\ main' = replied(replyOk)
    /\ UNCHANGED <<seenPostsBySubreddit, cycle, sent, fifoVars, lastOp>>

\* "unsubscribe <subreddit>"
CmdUnsubscribe(from, text, replyOk, writeOk) ==
    /\ main.pc = "idle"
    /\ userSubscriptions' =
           unsubscribeFromSubreddit(userSubscriptions, from, toLowerCase(text))
    /\ dataFile' = IF unsubscribeReturns(userSubscriptions, from, toLowerCase(text))
                   THEN saveUserData(dataFile, userSubscriptions',
                                     seenPostsBySubreddit, writeOk)
                   ELSE dataFile
    /\ main' = replied(replyOk)
    /\ UNCHANGED <<seenPostsBySubreddit, cycle, sent, fifoVars, lastOp>>

\* "reddit <subreddit>": subscribe the sender if needed (and confirm), fetch
\* the recent posts and start sending them to the sender's conversation, or
\* reply that none could be fetched
CmdReddit(from, text, posts, replyOk, writeOk) ==
    LET subreddit == toLowerCase(text)
        isSubscribed == subreddit \in getUserSubscriptions(userSubscriptions, from)
    IN  /\ main.pc = "idle"
        /\ userSubscriptions' =
               IF isSubscribed THEN userSubscriptions
               ELSE subscribeToSubreddit(userSubscriptions, from, subreddit)
        /\ dataFile' =
               IF ~isSubscribed /\ subscribeReturns(userSubscriptions, from, subreddit)
               THEN saveUserData(dataFile, userSubscriptions',
                                 seenPostsBySubreddit, writeOk)
               ELSE dataFile
        /\ main' = IF ~replyOk /\ (~isSubscribed \/ posts = <<>>) THEN DeadMain
                   ELSE IF posts = <<>> THEN IdleMain
                   ELSE [pc |-> "send", from |-> from, subreddit |-> subreddit,
                         posts |-> posts]
        /\ UNCHANGED <<seenPostsBySubreddit, cycle, sent, fifoVars, lastOp>>

\* "reddit" alone, a command with the wrong number of words, anything else:
\* only a reply is sent (and a lookup of the loop that rejects ends it)
CmdOther(replyOk) ==
    /\ main.pc = "idle"
    /\ main' = replied(replyOk)
    /\ UNCHANGED <<userSubscriptions, seenPostsBySubreddit, dataFile, cycle, sent, fifoVars, lastOp>>

\* the post main is sending in answer to "reddit <subreddit>"
MainMessage == <<toLowerCase(main.from), main.subreddit, Head(main.posts)>>

MainSendResolves ==
    /\ main.pc = "send"
    /\ sent' = sent \cup {MainMessage}
    /\ main' = IF Tail(main.posts) = <<>> THEN IdleMain
               ELSE [main EXCEPT !.posts = Tail(@)]
    /\ UNCHANGED <<userSubscriptions, seenPostsBySubreddit, dataFile, cycle, fifoVars, lastOp>>

MainSendRejects ==
    /\ main.pc = "send"
    /\ main' = DeadMain
    /\ UNCHANGED <<userSubscriptions, seenPostsBySubreddit, dataFile, cycle, sent, fifoVars, lastOp>>

(***************************************************************************)
(* The process stops at any point and is started again: the constructor    *)
(* loads the data file, then main() awaits the startup check before it     *)
(* sets the interval and opens the message stream.                         *)
(***************************************************************************)
Restart(order, writeOk) ==
    /\ userSubscriptions' = loadUserData(dataFile, writeOk).subs
    /\ seenPostsBySubreddit' = loadUserData(dataFile, writeOk).seen
    /\ dataFile' = loadUserData(dataFile, writeOk).file
    /\ order \in Orders(getAllSubscribedSubreddits(userSubscriptions'))
    /\ cycle' = [i \in Cycles |->
                    IF i = 1 /\ order # <<>> THEN FirstFetch(order) ELSE IdleCycle]
    /\ main' = IF order # <<>> THEN [IdleMain EXCEPT !.pc = "startup"] ELSE IdleMain
    /\ UNCHANGED <<sent, fifoVars, lastOp>>

(***************************************************************************)
(* Specifications.                                                         *)
(***************************************************************************)
\* the bot after its first start in an empty data directory
InitBot ==
    /\ userSubscriptions = EmptyMap
    /\ seenPostsBySubreddit = EmptyMap
    /\ dataFile = UserData(EmptyMap, EmptyMap)
    /\ cycle = [i \in Cycles |-> IdleCycle]
    /\ main = IdleMain
    /\ sent = {}

Init ==
    /\ InitBot
    /\ fifoSet = FifoSet(0)
    /\ lastCall = Call("none", NoItem, <<>>, fifoSet, FALSE)
    /\ calls = NoCalls
    /\ lastOp = NoOp

Next ==
    \/ \E i \in Cycles, order \in SeqsUpTo({toLowerCase(t) : t \in RawSubreddits},
                                                  Cardinality(RawSubreddits)) :
          StartCycle(i, order)
    \/ \E i \in Cycles, posts \in Feeds, writeOk \in BOOLEAN :
          FetchResolves(i, posts, writeOk)
    \/ \E i \in Cycles, conversations \in Listings : ListResolves(i, conversations)
    \/ \E i \in Cycles : ListRejects(i)
    \/ \E i \in Cycles, address \in RawAddresses \cup {UnknownAddress} :
          ResolveReturns(i, address)
    \/ \E i \in Cycles : SendResolves(i)
    \/ \E i \in Cycles : SendRejects(i)
    \/ \E i \in Cycles, writeOk \in BOOLEAN : Returned(i, writeOk)
    \/ \E from \in RawAddresses, replyOk, writeOk \in BOOLEAN :
          CmdStop(from, replyOk, writeOk)
    \/ \E from \in RawAddresses, text \in RawSubreddits, replyOk, writeOk \in BOOLEAN :
          CmdUnsubscribe(from, text, replyOk, writeOk)
    \/ \E from \in RawAddresses, text \in RawSubreddits, posts \in Feeds,
           replyOk, writeOk \in BOOLEAN :
          CmdReddit(from, text, posts, replyOk, writeOk)
    \/ \E replyOk \in BOOLEAN : CmdOther(replyOk)
    \/ MainSendResolves
    \/ MainSendRejects
    \/ \E order \in SeqsUpTo({toLowerCase(t) : t \in RawSubreddits},
                              Cardinality(RawSubreddits)), writeOk \in BOOLEAN :
          Restart(order, writeOk)

Spec == Init /\ [][Next]_vars

\* the FifoSet class alone: any capacity, any array to deserialize, then any
\* sequence of method calls
InitFifoSpec == InitFifo /\ InitBot /\ lastOp = NoOp

NextFifo ==
    \/ CallDeserialize
    \/ \E item \in Items : CallAdd(item)
    \/ \E item \in Items : CallHas(item)
    \/ \E item \in Items : CallDelete(item)
    \/ CallClear
    \/ CallRoundTrip

SpecFifo == InitFifoSpec /\ [][NextFifo]_vars

\* the manager alone, from a first start in an empty data directory
InitManager ==
    /\ userSubscriptions = EmptyMap
    /\ seenPostsBySubreddit = EmptyMap
    /\ dataFile = MissingFile
    /\ cycle = [i \in Cycles |-> IdleCycle]
    /\ main = IdleMain
    /\ sent = {}
    /\ fifoSet = FifoSet(0)
    /\ lastCall = Call("none", NoItem, <<>>, fifoSet, FALSE)
    /\ calls = NoCalls
    /\ lastOp = NoOp

NextManager ==
    \/ \E writeOk \in BOOLEAN : Construct(writeOk)
    \/ \E address \in Addresses, subreddit \in Subreddits, writeOk \in BOOLEAN :
          CallSubscribe(address, subreddit, writeOk)
    \/ \E address \in Addresses, subreddit \in Subreddits, writeOk \in BOOLEAN :
          CallUnsubscribe(address, subreddit, writeOk)
    \/ \E address \in Addresses, writeOk \in BOOLEAN :
          CallUnsubscribeAll(address, writeOk)
    \/ \E subreddit \in OfferedSubreddits, id \in OfferedIds, writeOk \in BOOLEAN :
          CallOffer(subreddit, id, writeOk)
    \/ \E address \in Addresses, subreddit \in Subreddits,
          point \in CrashPoints :
          SubscribeInterrupted(address, subreddit, point)
    \/ \E subreddit \in OfferedSubreddits, id \in OfferedIds,
          point \in CrashPoints :
          OfferInterrupted(subreddit, id, point)

SpecManager == InitManager /\ [][NextManager]_vars

\* the manager alone, started on whatever user_data.json holds: no file,
\* text that is not JSON, or any document of the bounded shapes below
SubscriptionEntries ==
    {Entry("0xA", v) : v \in {<<>>, <<"Games">>}} \cup {NotAnArray("0xA")}
SeenPostsEntries == {Entry("Games", <<"p1", "p2">>), NotAnArray("Games")}
Documents ==
    {Document(subscriptions, seenPosts) :
        subscriptions \in SeqsUpTo(SubscriptionEntries, MaxEntries),
        seenPosts \in SeqsUpTo(SeenPostsEntries, 1)}

InitSnapshot ==
    /\ userSubscriptions = EmptyMap
    /\ seenPostsBySubreddit = EmptyMap
    /\ dataFile \in Documents \cup {MissingFile, UnparsableFile}
    /\ cycle = [i \in Cycles |-> IdleCycle]
    /\ main = IdleMain
    /\ sent = {}
    /\ fifoSet = FifoSet(0)
    /\ lastCall = Call("none", NoItem, <<>>, fifoSet, FALSE)
    /\ calls = NoCalls
    /\ lastOp = NoOp

SpecSnapshot == InitSnapshot /\ [][NextManager]_vars

(***************************************************************************)
(* Properties of FifoSet (checked under SpecFifo).                         *)
(***************************************************************************)

\* C7: in every reachable state a FifoSet holds at most maxCapacity items,
\* for every capacity >= 0 and after any sequence of add, delete, clear and
\* deserialize.
C7_SizeWithinCapacity == size(fifoSet) <= capacity(fifoSet)

\* C8: for every capacity C >= 1, after add() of N distinct items with has()
\* calls interleaved anywhere, the oldest-first contents are exactly the last
\* min(C, N) items in their original order.
C8_KeepsLastItems ==
    (/\ capacity(fifoSet) >= 1
     /\ calls.onlyAddHas
     /\ IsDistinct(calls.adds))
    => serialize(fifoSet) =
          LastN(calls.adds, Min(capacity(fifoSet), Len(calls.adds)))

\* C8 witness: a full set that has() was called on, then add() of one more
\* new item evicted from.
C8_Witness ==
    /\ capacity(fifoSet) >= 2
    /\ calls.onlyAddHas /\ calls.hasCalled
    /\ IsDistinct(calls.adds)
    /\ Len(calls.adds) > capacity(fifoSet)
    /\ lastCall.op = "add"
    /\ size(lastCall.before) = capacity(fifoSet)

\* C9 as stated: deserialize(items, capacity) of any input longer than
\* capacity, repeated items included, holds exactly the last `capacity`
\* items of the input.  (Stated for capacity >= 1; capacity 0 is C7's case.)
C9_LastItemsOfAnyInput ==
    (/\ lastCall.op = "deserialize"
     /\ capacity(fifoSet) >= 1
     /\ Len(lastCall.input) > capacity(fifoSet))
    => serialize(fifoSet) = LastN(lastCall.input, capacity(fifoSet))

\* C9 amended: deserialize(items, capacity), capacity >= 1, of an input of
\* pairwise distinct items longer than capacity holds exactly the last
\* `capacity` items of the input, in input order.
C9_LastItemsOfDistinctInput ==
    (/\ lastCall.op = "deserialize"
     /\ capacity(fifoSet) >= 1
     /\ IsDistinct(lastCall.input)
     /\ Len(lastCall.input) > capacity(fifoSet))
    => serialize(fifoSet) = LastN(lastCall.input, capacity(fifoSet))

\* C9 witness: deserialize at capacity 2 of three distinct items.
C9_Witness ==
    /\ lastCall.op = "deserialize"
    /\ capacity(fifoSet) = 2
    /\ IsDistinct(lastCall.input)
    /\ Len(lastCall.input) = 3
    /\ size(fifoSet) = 2

\* C10: add(x) on a set that already contains x returns false and leaves
\* size, membership and oldest-first order unchanged, at any fill level.
C10_AddExistingIsNoOp ==
    (lastCall.op = "add" /\ has(lastCall.before, lastCall.item))
    => /\ lastCall.returned = FALSE
       /\ fifoSet = lastCall.before

\* C10 witness: add() of the oldest member of a full set of two.
C10_Witness ==
    /\ lastCall.op = "add"
    /\ size(lastCall.before) = capacity(lastCall.before)
    /\ size(lastCall.before) = 2
    /\ lastCall.item = Head(lastCall.before.items)

\* C11: for any set reached by add, delete and clear (and deserialize),
\* deserialize(serialize(s), s.capacity()) has the members of s in the same
\* oldest-first order, and every sequence of adds made on the copy returns
\* the same values and leaves the same contents as on s.
C11_RoundTripIsEquivalent ==
    lastCall.op = "roundtrip"
    => /\ serialize(fifoSet) = serialize(lastCall.before)
       /\ capacity(fifoSet) = capacity(lastCall.before)
       /\ \A adds \in SeqsUpTo(Items, MaxFollowUp) :
             /\ serialize(replay(fifoSet, adds)) = serialize(replay(lastCall.before, adds))
             /\ \A k \in 1..Len(adds) :
                   addReturns(replay(fifoSet, SubSeq(adds, 1, k - 1)), adds[k])
                   = addReturns(replay(lastCall.before, SubSeq(adds, 1, k - 1)), adds[k])

\* C11 witness: the round trip of a full set of two items.
C11_Witness ==
    /\ lastCall.op = "roundtrip"
    /\ capacity(lastCall.before) = 2
    /\ size(lastCall.before) = 2
    /\ size(fifoSet) = 2

(***************************************************************************)
(* Properties of the running bot (checked under Spec).                     *)
(***************************************************************************)
\* this step is cycle i calling sendRedditPostToSubscribers: it leaves the
\* await of a fetch or of the previous post and stands in a new attempt
Offers(i) ==
    /\ cycle[i].pc \in {"fetch", "returned"}
    /\ cycle'[i] # cycle[i]
    /\ cycle'[i].pc \in {"list", "returned"}

\* what the attempt cycle[i] is about
Subreddit(p) == toLowerCase(p.subreddit)
Post(p) == Head(p.posts)
Delivering(p) == p.pc \in {"list", "resolve", "send"}

\* C1: over any sequence of poll cycles, commands and restarts, no
\* subscriber is sent the same item of the same subreddit more than once.
C1_SentAtMostOnce ==
    [][/\ \A i \in Cycles : SendResolves(i) => Message(cycle[i]) \notin sent
       /\ MainSendResolves => MainMessage \notin sent]_vars

\* C2: of two offers of the same (subreddit, id), sequential or from two
\* overlapping cycles, with the id in the window in between, only the first
\* passes the dedup step; the second is a DUPLICATE and resolves and sends
\* nothing, so no two attempts fan the same id out.
C2_SecondOfferIsDuplicate ==
    /\ [](\A i, j \in Cycles :
            (/\ i # j
             /\ Delivering(cycle[i]) /\ Delivering(cycle[j])
             /\ Subreddit(cycle[i]) = Subreddit(cycle[j]))
            => Post(cycle[i]) # Post(cycle[j]))
    /\ [][\A i \in Cycles : Offers(i) =>
            LET t == Subreddit(cycle'[i])
                id == Post(cycle'[i])
            IN  IF has(windowOf(seenPostsBySubreddit, t), id)
                THEN /\ cycle'[i].state = "DUPLICATE"
                     /\ cycle'[i].pc = "returned"
                     /\ sent' = sent
                ELSE /\ cycle'[i].state # "DUPLICATE"
                     /\ has(windowOf(seenPostsBySubreddit', t), id)]_vars

\* C2 witness: two overlapping cycles offered the same id; one is fanning it
\* out while the other got DUPLICATE.
C2_Witness ==
    \E i, j \in Cycles :
        /\ Delivering(cycle[i])
        /\ cycle[j].pc = "returned" /\ cycle[j].state = "DUPLICATE"
        /\ Subreddit(cycle[i]) = Subreddit(cycle[j])
        /\ Post(cycle[i]) = Post(cycle[j])

\* C3: every dispatch attempt ends in DUPLICATE, NO_SUBSCRIBERS or
\* DELIVERED, whatever the transport reports while conversations are
\* listed, resolved or sent to.
C3_EndsInTerminalState ==
    \A i \in Cycles :
        cycle[i].pc = "returned"
        => cycle[i].state \in {"DUPLICATE", "NO_SUBSCRIBERS", "DELIVERED"}

\* C4: an offer for a subreddit without subscribers sends nothing and still
\* records the id; a later offer of that id is a DUPLICATE, subscribers or
\* not.
C4_SeenWithoutSubscribers ==
    [][\A i \in Cycles : Offers(i) =>
        LET t == Subreddit(cycle'[i])
            id == Post(cycle'[i])
            seen == has(windowOf(seenPostsBySubreddit, t), id)
            subscribers == getSubscribersForSubreddit(userSubscriptions, t)
        IN  /\ (~seen /\ subscribers = {})
                => /\ cycle'[i].state = "NO_SUBSCRIBERS"
                   /\ sent' = sent
                   /\ has(windowOf(seenPostsBySubreddit', t), id)
            /\ (seen /\ subscribers # {})
                => /\ cycle'[i].state = "DUPLICATE"
                   /\ ~Delivering(cycle'[i])
                   /\ sent' = sent]_vars

\* C4 witness: one cycle's offer ended NO_SUBSCRIBERS; the subreddit has a
\* subscriber again and the other cycle's offer of the same id was a
\* DUPLICATE.
C4_Witness ==
    \E i, j \in Cycles :
        /\ cycle[i].pc = "returned" /\ cycle[i].state = "NO_SUBSCRIBERS"
        /\ cycle[j].pc = "returned" /\ cycle[j].state = "DUPLICATE"
        /\ Subreddit(cycle[i]) = Subreddit(cycle[j])
        /\ Post(cycle[i]) = Post(cycle[j])
        /\ getSubscribersForSubreddit(userSubscriptions, Subreddit(cycle[j])) # {}
        /\ sent = {}

\* C5: a rejected send leaves the window alone, the loop goes on with the
\* remaining conversations, and the dispatch still returns true.
C5_SendFailureIsIsolated ==
    /\ [](\A i \in Cycles :
            (cycle[i].pc = "returned" /\ cycle[i].failed)
            => cycle[i].state = "DELIVERED")
    /\ [][\A i \in Cycles : SendRejects(i) =>
            /\ seenPostsBySubreddit' = seenPostsBySubreddit
            /\ IF cycle[i].conversations # <<>>
               THEN /\ cycle'[i].pc = "resolve"
                    /\ cycle'[i].conversation = Head(cycle[i].conversations)
                    /\ cycle'[i].conversations = Tail(cycle[i].conversations)
                    /\ cycle'[i].subscribers = cycle[i].subscribers
               ELSE /\ cycle'[i].pc = "returned"
                    /\ cycle'[i].state = "DELIVERED"]_vars

\* C5 witness: after a rejected send the next subscriber's send is under
\* way, with the post still in the window.
C5_Witness ==
    \E i \in Cycles :
        /\ cycle[i].failed
        /\ cycle[i].pc = "send"
        /\ has(windowOf(seenPostsBySubreddit, cycle[i].subreddit), Post(cycle[i]))

\* C6: every message a dispatch for a subreddit sends goes to an address
\* that is subscribed to it when the send is made.
C6_SendsOnlyToSubscribers ==
    [][\A i \in Cycles :
        (cycle[i].pc = "resolve" /\ cycle'[i].pc = "send")
        => Subreddit(cycle[i]) \in
              getUserSubscriptions(userSubscriptions,
                                   peerAddress(cycle[i].conversation))]_vars

(***************************************************************************)
(* Properties of the ConversationManager (checked under SpecManager, the   *)
(* manager from a first start, and SpecSnapshot, the manager started on    *)
(* any data file).                                                         *)
(***************************************************************************)
\* the (address, subreddit) pairs of a registry
Pairs(subs) == UNION {{<<a, t>> : t \in subs[a]} : a \in DOMAIN subs}

\* the pair is in the registry in some letter case
SubscribedInAnyCase(subs, address, subreddit) ==
    \E pair \in Pairs(subs) :
        /\ toLowerCase(pair[1]) = toLowerCase(address)
        /\ toLowerCase(pair[2]) = toLowerCase(subreddit)

IsLowerCase(str) == toLowerCase(str) = str

\* the names of S and their lowercase spellings
CaseVariants(S) == S \cup {toLowerCase(str) : str \in S}

\* C12: subscribe(a, t) returns true, adds the lowercase pair and writes the
\* data file exactly when no letter-case variant of (a, t) is subscribed;
\* otherwise it returns false, changes nothing in memory and writes nothing;
\* afterwards the subscribers of every case variant of t hold lowercase a
\* exactly once.
C12_SubscribeContract ==
    [][lastOp'.op = "subscribe" =>
        LET a == lastOp'.address
            t == lastOp'.subreddit
            already == SubscribedInAnyCase(userSubscriptions, a, t)
        IN  /\ lastOp'.returned = ~already
            /\ ~already =>
                  /\ Pairs(userSubscriptions') =
                         Pairs(userSubscriptions) \cup {<<toLowerCase(a), toLowerCase(t)>>}
                  /\ lastOp'.write # "none"
                  /\ lastOp'.write = "ok" =>
                         dataFile' = UserData(userSubscriptions', seenPostsBySubreddit')
            /\ already =>
                  /\ userSubscriptions' = userSubscriptions
                  /\ seenPostsBySubreddit' = seenPostsBySubreddit
                  /\ dataFile' = dataFile
                  /\ lastOp'.write = "none"
            /\ \A v \in CaseVariants(Subreddits) :
                  toLowerCase(v) = toLowerCase(t) =>
                      /\ toLowerCase(a) \in getSubscribersForSubreddit(userSubscriptions', v)
                      /\ Cardinality({k \in getSubscribersForSubreddit(userSubscriptions', v) :
                                         toLowerCase(k) = toLowerCase(a)}) = 1
    ]_vars

\* C12 witness: subscribe("0xA", "Games") refused because ("0xa", "games")
\* is in the registry, next to another subscription of the same address.
C12_Witness ==
    /\ lastOp.op = "subscribe"
    /\ lastOp.address = "0xA" /\ lastOp.subreddit = "Games"
    /\ ~lastOp.returned
    /\ "0xa" \in DOMAIN userSubscriptions
    /\ userSubscriptions["0xa"] = {"games", "news"}

\* C14 as stated: unsubscribe(a, t) returns true exactly when a is subscribed
\* to t in some letter case and then removes only that pair (seen windows
\* and everybody else untouched), otherwise returns false and changes
\* nothing; and after any subscribe(a, t), unsubscribe(a, t) puts topicsOf(a)
\* and allTopics() back to what they were before the subscribe.
C14_UnsubscribeUndoesAnySubscribe ==
    [][lastOp'.op = "unsubscribe" =>
        LET a == lastOp'.address
            t == lastOp'.subreddit
            subscribed == SubscribedInAnyCase(userSubscriptions, a, t)
        IN  /\ lastOp'.returned = subscribed
            /\ seenPostsBySubreddit' = seenPostsBySubreddit
            /\ subscribed =>
                  Pairs(userSubscriptions') =
                      Pairs(userSubscriptions) \ {<<toLowerCase(a), toLowerCase(t)>>}
            /\ ~subscribed =>
                  userSubscriptions' = userSubscriptions /\ dataFile' = dataFile
            /\ (/\ lastOp.op = "subscribe"
                /\ toLowerCase(lastOp.address) = toLowerCase(a)
                /\ toLowerCase(lastOp.subreddit) = toLowerCase(t))
               => /\ getUserSubscriptions(userSubscriptions', a)
                        = getUserSubscriptions(lastOp.before, a)
                  /\ getAllSubscribedSubreddits(userSubscriptions')
                        = getAllSubscribedSubreddits(lastOp.before)
    ]_vars

\* C14 amended: the same contract of unsubscribe; and after a subscribe(a, t)
\* that returned true (a was not subscribed to t), unsubscribe(a, t) puts
\* topicsOf(a) and allTopics() back to what they were before the subscribe.
C14_UnsubscribeUndoesNewSubscription ==
    [][lastOp'.op = "unsubscribe" =>
        LET a == lastOp'.address
            t == lastOp'.subreddit
            subscribed == SubscribedInAnyCase(userSubscriptions, a, t)
        IN  /\ lastOp'.returned = subscribed
            /\ seenPostsBySubreddit' = seenPostsBySubreddit
            /\ subscribed =>
                  Pairs(userSubscriptions') =
                      Pairs(userSubscriptions) \ {<<toLowerCase(a), toLowerCase(t)>>}
            /\ ~subscribed =>
                  userSubscriptions' = userSubscriptions /\ dataFile' = dataFile
            /\ (/\ lastOp.op = "subscribe"
                /\ lastOp.returned
                /\ toLowerCase(lastOp.address) = toLowerCase(a)
                /\ toLowerCase(lastOp.subreddit) = toLowerCase(t))
               => /\ getUserSubscriptions(userSubscriptions', a)
                        = getUserSubscriptions(lastOp.before, a)
                  /\ getAllSubscribedSubreddits(userSubscriptions')
                        = getAllSubscribedSubreddits(lastOp.before)
    ]_vars

\* C14 witness: unsubscribe("0xA", "Games") has removed that subscription
\* of 0xa and left its other one, while 0xb keeps its own to the same
\* subreddit and a post has been recorded as seen.
C14_Witness ==
    /\ lastOp.op = "unsubscribe"
    /\ lastOp.address = "0xA" /\ lastOp.subreddit = "Games"
    /\ lastOp.returned
    /\ userSubscriptions = [x \in {"0xa", "0xb"} |->
                               IF x = "0xa" THEN {"news"} ELSE {"games"}]
    /\ DOMAIN seenPostsBySubreddit # {}

\* C15: unsubscribeAll(a) returns false and changes nothing when a has no
\* subscriptions; otherwise it returns true and afterwards a has no registry
\* entry, topicsOf(a) is empty, a is a subscriber of no subreddit, and every
\* other subscriber's topics are as before.
C15_UnsubscribeAllContract ==
    [][lastOp'.op = "unsubscribeAll" =>
        LET a == lastOp'.address
            had == getUserSubscriptions(userSubscriptions, a) # {}
        IN  /\ lastOp'.returned = had
            /\ ~had => /\ userSubscriptions' = userSubscriptions
                       /\ seenPostsBySubreddit' = seenPostsBySubreddit
                       /\ dataFile' = dataFile
            /\ had => /\ \A k \in DOMAIN userSubscriptions' :
                            toLowerCase(k) # toLowerCase(a)
                      /\ getUserSubscriptions(userSubscriptions', a) = {}
                      /\ \A t \in CaseVariants(Subreddits) :
                            toLowerCase(a) \notin
                                getSubscribersForSubreddit(userSubscriptions', t)
                      /\ DOMAIN userSubscriptions' =
                             DOMAIN userSubscriptions \ {toLowerCase(a)}
                      /\ \A k \in DOMAIN userSubscriptions' :
                            userSubscriptions'[k] = userSubscriptions[k]
    ]_vars

\* C15 witness: unsubscribeAll("0xA") has removed the subscriptions of 0xa
\* and left 0xb's.
C15_Witness ==
    /\ lastOp.op = "unsubscribeAll"
    /\ lastOp.address = "0xA"
    /\ lastOp.returned
    /\ userSubscriptions = [x \in {"0xb"} |-> {"games"}]

\* C13: in every reachable state, from an empty registry or from any data
\* file loaded at startup and after any sequence of subscribe, unsubscribe
\* and unsubscribeAll, no address is mapped to an empty set of subreddits,
\* in memory or in a data file the program has written.
C13_NoEmptyTopicSets ==
    /\ \A a \in DOMAIN userSubscriptions : userSubscriptions[a] # {}
    /\ lastOp.write = "ok" =>
          \A k \in 1..Len(dataFile.subscriptions) :
              dataFile.subscriptions[k].value # <<>>

\* C16: in every reachable state every address and every subreddit name held
\* in memory (registry key, member of a subscription set, key of the dedup
\* index) and in every data file the program has written is lowercase,
\* whatever the letter case in commands or in the data file loaded.
C16_EverythingLowerCase ==
    /\ \A a \in DOMAIN userSubscriptions :
          /\ IsLowerCase(a)
          /\ \A t \in userSubscriptions[a] : IsLowerCase(t)
    /\ \A t \in DOMAIN seenPostsBySubreddit : IsLowerCase(t)
    /\ lastOp.write = "ok" =>
          /\ \A k \in 1..Len(dataFile.subscriptions) :
                /\ IsLowerCase(dataFile.subscriptions[k].key)
                /\ \A t \in Range(dataFile.subscriptions[k].value) : IsLowerCase(t)
          /\ \A k \in 1..Len(dataFile.seenPosts) :
                IsLowerCase(dataFile.seenPosts[k].key)

\* what a successful write of the call of this step would have made it
\* return: the methods compute their result before they save
ReturnsWhenWritten ==
    CASE lastOp'.op = "subscribe" ->
             subscribeReturns(userSubscriptions, lastOp'.address, lastOp'.subreddit)
      [] lastOp'.op = "unsubscribe" ->
             unsubscribeReturns(userSubscriptions, lastOp'.address, lastOp'.subreddit)
      [] lastOp'.op = "unsubscribeAll" ->
             unsubscribeAllReturns(userSubscriptions, lastOp'.address)
      [] lastOp'.op = "offer" ->
             /\ ~has(windowOf(seenPostsBySubreddit, lastOp'.subreddit), lastOp'.id)
             /\ getSubscribersForSubreddit(userSubscriptions, lastOp'.subreddit) # {}
      [] OTHER -> FALSE

\* C17: when the write of the data file fails during subscribe, unsubscribe,
\* unsubscribeAll or the offer of a dispatch, the caller can tell: the call
\* throws, or returns something else than it would have had the write
\* succeeded; and the change made in memory is kept.
C17_WriteFailureIsReported ==
    [][lastOp'.write = "failed" /\ lastOp'.op # "construct" =>
          /\ lastOp'.threw \/ lastOp'.returned # ReturnsWhenWritten
          /\ <<userSubscriptions', seenPostsBySubreddit'>>
                 # <<userSubscriptions, seenPostsBySubreddit>>
          /\ dataFile' = dataFile
    ]_vars

\* C18: after every mutating call whose write succeeds the data file is the
\* document of the complete state in memory (every subscription, every seen
\* window), however many writes failed before it.
C18_FileIsMemoryAfterWrite ==
    lastOp.write = "ok" =>
        /\ dataFile = UserData(userSubscriptions, seenPostsBySubreddit)
        /\ {dataFile.subscriptions[k].key : k \in 1..Len(dataFile.subscriptions)}
               = DOMAIN userSubscriptions
        /\ \A k \in 1..Len(dataFile.subscriptions) :
               Range(dataFile.subscriptions[k].value)
                   = userSubscriptions[dataFile.subscriptions[k].key]
        /\ {dataFile.seenPosts[k].key : k \in 1..Len(dataFile.seenPosts)}
               = DOMAIN seenPostsBySubreddit
        /\ \A k \in 1..Len(dataFile.seenPosts) :
               dataFile.seenPosts[k].value
                   = serialize(seenPostsBySubreddit[dataFile.seenPosts[k].key])

\* C18 witness: an unsubscribe whose write succeeded after a failed write
\* had left the file behind, with a subscription and a seen post in memory.
C18_Witness ==
    /\ lastOp.op = "unsubscribe"
    /\ lastOp.write = "ok"
    /\ lastOp.stale
    /\ DOMAIN userSubscriptions # {}
    /\ \E t \in DOMAIN seenPostsBySubreddit : size(seenPostsBySubreddit[t]) > 0

\* a data file loadUserData cannot load: absent, not JSON, or with a value
\* that is not an array
Malformed(file) ==
    \/ file.kind # "document"
    \/ \E k \in 1..Len(file.subscriptions) : ~file.subscriptions[k].isArray
    \/ \E k \in 1..Len(file.seenPosts) : ~file.seenPosts[k].isArray

\* C19: construction on a missing, unparsable or structurally malformed data
\* file never throws and leaves the registry and the dedup index completely
\* empty, nothing partially loaded; a missing file is replaced by the empty
\* document (when that write goes through).
C19_MalformedFileLoadsNothing ==
    [][lastOp'.op = "construct" /\ Malformed(dataFile) =>
          /\ ~lastOp'.threw
          /\ userSubscriptions' = EmptyMap
          /\ seenPostsBySubreddit' = EmptyMap
          /\ (dataFile.kind = "missing" /\ lastOp'.write = "ok") =>
                 dataFile' = UserData(EmptyMap, EmptyMap)
    ]_vars

\* C20: when the process stops after a mutating call whose write succeeded
\* and is started again, the state loaded has the same address-to-subreddits
\* relation and, for every subreddit, the same seen ids in the same
\* oldest-first order as the state before the stop.
C20_RestartRestoresState ==
    [][lastOp'.op = "construct" /\ lastOp.write = "ok" =>
          /\ userSubscriptions' = userSubscriptions
          /\ DOMAIN seenPostsBySubreddit' = DOMAIN seenPostsBySubreddit
          /\ \A t \in DOMAIN seenPostsBySubreddit :
                serialize(seenPostsBySubreddit'[t]) = serialize(seenPostsBySubreddit[t])
    ]_vars

\* C20 witness: a restart on a file in step with memory has loaded two
\* subscribers and the window of two posts offered as p2, then p1.
C20_Witness ==
    /\ lastOp.op = "construct"
    /\ ~lastOp.stale
    /\ Cardinality(DOMAIN userSubscriptions) = 2
    /\ \A a \in DOMAIN userSubscriptions : userSubscriptions[a] # {}
    /\ "games" \in DOMAIN seenPostsBySubreddit
    /\ serialize(seenPostsBySubreddit["games"]) = <<"p2", "p1">>

\* C22: on a FifoSet constructed with capacity 0, add of any item returns
\* false and the item is not a member afterwards: has is false and size
\* stays 0 after any sequence of adds.
C22_CapacityZeroHoldsNothing ==
    (/\ lastCall.op = "add"
     /\ capacity(lastCall.before) = 0
     /\ size(lastCall.before) = 0)
    => /\ lastCall.returned = FALSE
       /\ ~has(fifoSet, lastCall.item)
       /\ size(fifoSet) = 0

\* C21: a subreddit whose window was created at delivery time keeps the
\* capacity of a fresh window (50) for as long as it is tracked, restarts
\* between offers included: once one id more than that capacity has been
\* offered, the first id is no longer seen and the last one is.  Every
\* window of the manager from a first start was created at delivery time.
C21_WindowKeepsFreshCapacity ==
    \A t \in DOMAIN seenPostsBySubreddit :
        /\ capacity(seenPostsBySubreddit[t]) = FreshCapacity
        /\ size(seenPostsBySubreddit[t]) <= FreshCapacity

\* the subscriptions and seen ids that a start on this file would load
Persisted(file) ==
    [subs |-> Pairs(loadUserData(file, TRUE).subs),
     seen |-> UNION {{<<t, id>> : id \in Range(serialize(loadUserData(file, TRUE).seen[t]))} :
                        t \in DOMAIN loadUserData(file, TRUE).seen}]

\* C25: when the process dies during a snapshot write, the data file found
\* at the next start is the complete previous document or the complete new
\* one, never a partial one, and no subscription or seen id that an earlier
\* write had persisted is lost.
C25_InterruptedWriteIsAtomic ==
    [][lastOp'.write = "interrupted"
       => /\ dataFile' = dataFile \/ dataFile'.kind = "document"
          /\ Persisted(dataFile).subs \subseteq Persisted(dataFile').subs
          /\ Persisted(dataFile).seen \subseteq Persisted(dataFile').seen]_vars

\* C23: when a dispatch reaches DELIVERING, a send is attempted for every
\* subscriber resolved for the subreddit before it returns, whatever
\* conversations the client lists and in whatever order.
C23_EverySubscriberIsAttempted ==
    [][\A i \in Cycles :
        (/\ cycle[i].state = "DELIVERING"
         /\ cycle'[i].pc = "returned"
         /\ cycle'[i].state = "DELIVERED")
        => cycle[i].subscribers \subseteq cycle[i].attempted]_vars

\* the seen ids of a subreddit in a data file
SeenInFile(file, subreddit) ==
    UNION {Range(file.seenPosts[k].value) :
              k \in {n \in DOMAIN file.seenPosts :
                        file.seenPosts[n].key = toLowerCase(subreddit)}}

\* this step is the process stopping and starting again (no cycle is past
\* its first fetch after it)
Restarts ==
    /\ \A i \in Cycles : cycle'[i].pc \in {"idle", "fetch"}
    /\ \E order \in SeqsUpTo({toLowerCase(t) : t \in RawSubreddits},
                             Cardinality(RawSubreddits)), writeOk \in BOOLEAN :
          Restart(order, writeOk)

\* this step is cycle i calling sendRedditPostToSubscribers with a
\* writeFileSync that succeeds
OffersAndWrites(i) ==
    \/ \E posts \in Feeds : FetchResolves(i, posts, TRUE)
    \/ Returned(i, TRUE)

====
